---------------------------- MODULE Spec2Model ----------------------------
(***************************************************************************)
(* Schedule-permutation Monte Carlo engine of fantasy-football-wrapped.    *)
(* The two entry points (analyze_schedule.py, league_report.py) share the  *)
(* same core functions; league_report.py additionally keeps                *)
(* championship_counts.  Scores are modelled as naturals, expected wins as *)
(* integers scaled by 2 * (num_teams - 1).                                 *)
(***************************************************************************)
EXTENDS Integers, Sequences, FiniteSets, TLC

(* ------------------------------ bounds --------------------------------- *)
MaxScore == 1
MaxTrials == 2
MaxPlayoffSlots == 5

\* trials of each of the two runs that are compared for reproducibility
DetTrials == 1

\* calls of the core functions made one after another on the same data
MaxCalls == 2

\* trials of the run whose rankings are re-applied in other orders and shards
ShardTrials == 3

(* ------------------------------ inputs --------------------------------- *)
Teams == {"A", "B", "C", "D"}

\* the 4-team, 2-week scenario of the specification, with 2 playoff slots
ScenarioScores ==
    [t \in Teams |-> CASE t = "A" -> <<100, 60>>
                       [] t = "B" -> <<90, 95>>
                       [] t = "C" -> <<80, 85>>
                       [] t = "D" -> <<70, 50>>]

ScenarioSchedule ==
    << << <<"A", "B">>, <<"C", "D">> >>, << <<"A", "C">>, <<"B", "D">> >> >>

\* every single-week score matrix within the score bound
WeekMatrices == {[t \in Teams |-> <<v[t]>>] : v \in [Teams -> 0..MaxScore]}

\* the leagues the entry points are run on: <<weekly_scores, playoff_teams>>
Leagues == (WeekMatrices \X (0..MaxPlayoffSlots)) \cup {<<ScenarioScores, 2>>}

\* all orders in which a set can be iterated
Orders(S) ==
    {s \in [1..Cardinality(S) -> S] : \A i, j \in DOMAIN s : i # j => s[i] # s[j]}

TeamOrders == Orders(Teams)

(* ------------------------------ helpers -------------------------------- *)
Min(a, b) == IF a < b THEN a ELSE b

RECURSIVE SumSeq(_)
SumSeq(s) == IF s = <<>> THEN 0 ELSE Head(s) + SumSeq(Tail(s))

RECURSIVE SumSet(_, _)

\* sum of f[x] over x in S
SumSet(f, S) ==
    IF S = {} THEN 0
    ELSE LET x == CHOOSE y \in S : TRUE IN f[x] + SumSet(f, S \ {x})

\* defaultdict(int) read: a missing key counts as 0
Get(d, k) == IF k \in DOMAIN d THEN d[k] ELSE 0

\* defaultdict(int) increment: d[k] += n creates the key when it is missing
Incr(d, k, n) == (k :> (Get(d, k) + n)) @@ d

\* len(data['weeks']): the common length of the score sequences
NumWeeks(ws) == Len(ws[CHOOSE t \in DOMAIN ws : TRUE])

(* ------------------------- random.shuffle ------------------------------ *)
\* the draws one shuffle of a list of length n takes from the generator:
\* for i = n-1 down to 1, j = randbelow(i + 1)
Draws(n) == {d \in [1..(n - 1) -> 0..(n - 1)] : \A i \in DOMAIN d : d[i] <= i}

Swap(x, i, j) == [x EXCEPT ![i] = x[j], ![j] = x[i]]

RECURSIVE ShuffleFrom(_, _, _)
ShuffleFrom(x, d, i) ==
    IF i < 1 THEN x ELSE ShuffleFrom(Swap(x, i + 1, d[i] + 1), d, i - 1)

Shuffle(x, d) == ShuffleFrom(x, d, Len(x) - 1)

(* ------------------------- schedule sampler ---------------------------- *)
\* range(0, len(shuffled), 2), as the 1-based positions of the first partners
PairStarts(n) == {i \in 1..n : i % 2 = 1}

\* shuffled[i+1] is out of range for some i of range(0, len(shuffled), 2): the
\* append raises IndexError and the call returns nothing
generate_round_robin_week_raises(teamList) ==
    \E i \in PairStarts(Len(teamList)) : i + 1 > Len(teamList)

\* a sampler that steps through the shuffled list by one instead of by two
generate_round_robin_week_Overlap(teamList, d) ==
    LET shuffled == Shuffle(teamList, d)
    IN  [k \in 1..Cardinality(PairStarts(Len(teamList))) |->
            <<shuffled[k], shuffled[k + 1]>>]

generate_round_robin_week(teamList, d) ==
    LET shuffled == Shuffle(teamList, d)
    IN  [k \in 1..Cardinality(PairStarts(Len(teamList))) |->
            <<shuffled[2 * k - 1], shuffled[2 * k]>>]

\* rnd[w] are the draws of the shuffle of week w
generate_random_schedule(teamList, num_weeks, rnd) ==
    [w \in 1..num_weeks |-> generate_round_robin_week(teamList, rnd[w])]

\* a sampler that shuffles the list it is given
ListAfterWeek_InPlace(teamList, d) == Shuffle(teamList, d)

\* the caller's list after generate_round_robin_week: shuffled = teams.copy()
\* is a new list, and the shuffle permutes that one
ListAfterWeek(teamList, d) == teamList

RECURSIVE ListAfterSchedule(_, _, _)

\* the caller's list after generate_random_schedule has made the calls for
\* the weeks w..Len(rnd), every call with the same list object
ListAfterSchedule(teamList, rnd, w) ==
    IF w > Len(rnd) THEN teamList
    ELSE ListAfterSchedule(ListAfterWeek(teamList, rnd[w]), rnd, w + 1)

(* ------------------------- standings ----------------------------------- *)
InitRecords(ws) ==
    [t \in DOMAIN ws |->
        [wins |-> 0, losses |-> 0, ties |-> 0, points |-> SumSeq(ws[t])]]

\* a matchup loop that records a tie for the first team only
ApplyMatchup_TieOnce(rec, ws, week_idx, m) ==
    LET team1 == m[1]
        team2 == m[2]
        score1 == ws[team1][week_idx]
        score2 == ws[team2][week_idx]
    IN  IF score1 > score2
        THEN [rec EXCEPT ![team1].wins = @ + 1, ![team2].losses = @ + 1]
        ELSE IF score2 > score1
        THEN [rec EXCEPT ![team2].wins = @ + 1, ![team1].losses = @ + 1]
        ELSE [rec EXCEPT ![team1].ties = @ + 1]

\* a matchup loop that takes a win of the second team for a tie
ApplyMatchup_NoSecondWin(rec, ws, week_idx, m) ==
    LET team1 == m[1]
        team2 == m[2]
        score1 == ws[team1][week_idx]
        score2 == ws[team2][week_idx]
    IN  IF score1 > score2
        THEN [rec EXCEPT ![team1].wins = @ + 1, ![team2].losses = @ + 1]
        ELSE [[rec EXCEPT ![team1].ties = @ + 1] EXCEPT ![team2].ties = @ + 1]

\* a matchup loop that also adds the scores of the matchup to the points
ApplyMatchup_AddsPoints(rec, ws, week_idx, m) ==
    LET team1 == m[1]
        team2 == m[2]
        score1 == ws[team1][week_idx]
        score2 == ws[team2][week_idx]
        r == [[rec EXCEPT ![team1].points = @ + score1]
                  EXCEPT ![team2].points = @ + score2]
    IN  IF score1 > score2
        THEN [r EXCEPT ![team1].wins = @ + 1, ![team2].losses = @ + 1]
        ELSE IF score2 > score1
        THEN [r EXCEPT ![team2].wins = @ + 1, ![team1].losses = @ + 1]
        ELSE [[r EXCEPT ![team1].ties = @ + 1] EXCEPT ![team2].ties = @ + 1]

ApplyMatchup(rec, ws, week_idx, m) ==
    LET team1 == m[1]
        team2 == m[2]
        score1 == ws[team1][week_idx]
        score2 == ws[team2][week_idx]
    IN  IF score1 > score2
        THEN [rec EXCEPT ![team1].wins = @ + 1, ![team2].losses = @ + 1]
        ELSE IF score2 > score1
        THEN [rec EXCEPT ![team2].wins = @ + 1, ![team1].losses = @ + 1]
        ELSE [[rec EXCEPT ![team1].ties = @ + 1] EXCEPT ![team2].ties = @ + 1]

RECURSIVE ApplyWeek(_, _, _, _)
ApplyWeek(rec, ws, week_idx, matchups) ==
    IF matchups = <<>> THEN rec
    ELSE ApplyWeek(ApplyMatchup(rec, ws, week_idx, Head(matchups)), ws, week_idx,
                   Tail(matchups))

RECURSIVE ApplySchedule(_, _, _, _)
ApplySchedule(rec, ws, schedule, week_idx) ==
    IF week_idx > Len(schedule) THEN rec
    ELSE ApplySchedule(ApplyWeek(rec, ws, week_idx, schedule[week_idx]), ws, schedule,
                       week_idx + 1)

\* the records dict at the end of the matchup loop
Records(ws, schedule) == ApplySchedule(InitRecords(ws), ws, schedule, 1)

\* weekly_scores[team1] or weekly_scores[team2] of some matchup is a missing
\* key: the lookup raises KeyError and the call returns nothing
calculate_standings_raises(ws, schedule) ==
    \E w \in DOMAIN schedule : \E k \in DOMAIN schedule[w] :
        schedule[w][k][1] \notin DOMAIN ws \/ schedule[w][k][2] \notin DOMAIN ws

\* the caller's matrix after calculate_standings: the comprehension and the
\* matchup loop only read weekly_scores; all writes go to records
ScoresAfterStandings(ws, schedule) == ws

\* a sort key of wins alone
KeyGreater_WinsOnly(a, b) == a[2] > b[2]

\* a sort key of (points, wins)
KeyGreater_PointsFirst(a, b) == a[4] > b[4] \/ (a[4] = b[4] /\ a[2] > b[2])

\* rows are <<team, wins, losses, points>>; the sort key is (wins, points)
KeyGreater(a, b) == a[2] > b[2] \/ (a[2] = b[2] /\ a[4] > b[4])

RECURSIVE InsertRow(_, _)

\* an ascending sort that is reversed afterwards: a row goes before the rows
\* placed before it whose key is equal
InsertRow_ReversesTies(sorted, row) ==
    IF sorted = <<>> THEN <<row>>
    ELSE IF ~KeyGreater(Head(sorted), row) THEN <<row>> \o sorted
    ELSE <<Head(sorted)>> \o InsertRow(Tail(sorted), row)

\* list.sort(key=..., reverse=True) is descending and stable: a row goes after
\* the rows placed before it whose key is greater or equal
InsertRow(sorted, row) ==
    IF sorted = <<>> THEN <<row>>
    ELSE IF KeyGreater(row, Head(sorted)) THEN <<row>> \o sorted
    ELSE <<Head(sorted)>> \o InsertRow(Tail(sorted), row)

RECURSIVE SortFrom(_, _, _)
SortFrom(rows, i, sorted) ==
    IF i > Len(rows) THEN sorted ELSE SortFrom(rows, i + 1, InsertRow(sorted, rows[i]))

SortStandings(rows) == SortFrom(rows, 1, <<>>)

\* the sorted standings list of a records dict iterated in the order keys
RankRecords(r, keys) ==
    SortStandings([i \in 1..Len(keys) |->
        <<keys[i], r[keys[i]].wins, r[keys[i]].losses, r[keys[i]].points>>])

\* keys is the iteration order of the weekly_scores dict
calculate_standings(ws, keys, schedule) == RankRecords(Records(ws, schedule), keys)

\* a selector that gives up when the slots exceed the ranking
get_playoff_teams_EmptyOnOverflow(standingsList, slots) ==
    IF slots > Len(standingsList) THEN {}
    ELSE {standingsList[i][1] : i \in 1..slots}

\* a selector that stops one position early
get_playoff_teams_OneShort(standingsList, slots) ==
    {standingsList[i][1] : i \in 1..(Min(slots, Len(standingsList)) - 1)}

get_playoff_teams(standingsList, slots) ==
    {standingsList[i][1] : i \in 1..Min(slots, Len(standingsList))}

(* ------------------------- expected wins ------------------------------- *)
\* a win rate that counts the team as tied with itself
WinRate_SelfTie(ws, team, week_idx) ==
    LET score == ws[team][week_idx]
        teams_beaten == Cardinality({t \in DOMAIN ws : ws[t][week_idx] < score})
        teams_tied == Cardinality({t \in DOMAIN ws : ws[t][week_idx] = score})
    IN  2 * teams_beaten + teams_tied

\* win_rate of one team in one week, scaled by 2 * (num_teams - 1):
\* (teams_beaten + 0.5 * teams_tied) / (num_teams - 1)
WinRate(ws, team, week_idx) ==
    LET score == ws[team][week_idx]
        teams_beaten == Cardinality({t \in DOMAIN ws : ws[t][week_idx] < score})
        teams_tied == Cardinality({t \in DOMAIN ws : ws[t][week_idx] = score}) - 1
    IN  2 * teams_beaten + teams_tied

RECURSIVE SumWinRates(_, _, _)
SumWinRates(ws, team, week_idx) ==
    IF week_idx > NumWeeks(ws) THEN 0
    ELSE WinRate(ws, team, week_idx) + SumWinRates(ws, team, week_idx + 1)

\* the per-week sort only fixes the order in which the teams are visited
calculate_expected_wins(ws) == [team \in DOMAIN ws |-> SumWinRates(ws, team, 1)]

\* the caller's matrix after calculate_expected_wins: week_scores is a new
\* list of (team, score) pairs, and the sort orders that list
ScoresAfterExpectedWins(ws) == ws

(* ------------------------- accumulator update -------------------------- *)
\* counts = [playoff_counts, placement_counts, total_wins, championship_counts]
EmptyAcc ==
    [playoff_counts |-> <<>>, placement_counts |-> <<>>, total_wins |-> <<>>,
     championship_counts |-> <<>>]

RECURSIVE CountPlayoffs(_, _)

\* for team in playoff_teams: playoff_counts[team] += 1
CountPlayoffs(counts, S) ==
    IF S = {} THEN counts
    ELSE LET t == CHOOSE x \in S : TRUE
         IN  CountPlayoffs([counts EXCEPT !.playoff_counts = Incr(@, t, 1)], S \ {t})

\* a histogram update that sets the bucket to 1 instead of adding 1
IncrPlacement_Set(pl, team, place) ==
    (team :> ((place :> 1) @@ (IF team \in DOMAIN pl THEN pl[team] ELSE <<>>))) @@ pl

\* placement_counts[team][place] += 1 on a defaultdict of defaultdicts
IncrPlacement(pl, team, place) ==
    (team :> Incr(IF team \in DOMAIN pl THEN pl[team] ELSE <<>>, place, 1)) @@ pl

\* a placement loop that counts the runner-up as the champion
CountRow_RunnerUp(counts, row, place) ==
    [counts EXCEPT
        !.placement_counts = IncrPlacement(@, row[1], place),
        !.total_wins = Incr(@, row[1], row[2]),
        !.championship_counts = IF place = 2 THEN Incr(@, row[1], 1) ELSE @]

\* a placement loop that stores the wins of the trial instead of adding them
CountRow_LastWins(counts, row, place) ==
    [counts EXCEPT
        !.placement_counts = IncrPlacement(@, row[1], place),
        !.total_wins = (row[1] :> row[2]) @@ @,
        !.championship_counts = IF place = 1 THEN Incr(@, row[1], 1) ELSE @]

\* one pass of the placement loop for the row at position place
CountRow(counts, row, place) ==
    [counts EXCEPT
        !.placement_counts = IncrPlacement(@, row[1], place),
        !.total_wins = Incr(@, row[1], row[2]),
        !.championship_counts = IF place = 1 THEN Incr(@, row[1], 1) ELSE @]

RECURSIVE CountPlacements(_, _, _)

\* for place, (team, wins, losses, points) in enumerate(standings, 1)
CountPlacements(counts, standingsList, place) ==
    IF place > Len(standingsList) THEN counts
    ELSE CountPlacements(CountRow(counts, standingsList[place], place), standingsList,
                         place + 1)

\* the accumulators after one more trial with the given standings
Accumulate(counts, standingsList, slots) ==
    CountPlacements(CountPlayoffs(counts, get_playoff_teams(standingsList, slots)),
                    standingsList, 1)

RECURSIVE AccumulateAll(_, _, _)

\* the accumulators after the trials whose standings are listed, in that order
AccumulateAll(counts, trials, slots) ==
    IF trials = <<>> THEN counts
    ELSE AccumulateAll(Accumulate(counts, Head(trials), slots), Tail(trials), slots)

(* ------------------------------ state ---------------------------------- *)
VARIABLES
    weekly_scores,        \* ScoreMatrix: team -> scores per week
    teams,                \* team list: iteration order of the weekly_scores dict
    num_playoff_teams,    \* data['league_info']['playoff_teams']
    pc,                   \* position in the entry point
    sim,                  \* completed trials
    actual_schedule,      \* schedule scored by analyze_actual_results, or the
                          \* result of the last generate_random_schedule call
    records,              \* records dict of the last calculate_standings call
    standings,            \* result of the last calculate_standings call
    playoff_teams,        \* result of the last get_playoff_teams call
    expected_wins,        \* result of calculate_expected_wins
    week,                 \* result of the last generate_round_robin_week call
    acc,                  \* playoff_counts, placement_counts, total_wins,
                          \* championship_counts of the run
    other,                \* beside the run: a second run on the same data and
                          \* seed (its team order and its accumulators), or
                          \* the rankings of the trials done so far
    raised                \* the exception that ended the call, "none" if none

vars == <<weekly_scores, teams, num_playoff_teams, pc, sim, actual_schedule, records,
          standings, playoff_teams, expected_wins, week, acc, other, raised>>

playoff_counts == acc.playoff_counts
placement_counts == acc.placement_counts
total_wins == acc.total_wins
championship_counts == acc.championship_counts

\* the state of one run before any function of the core has run
FreshRun ==
    /\ sim = 0
    /\ actual_schedule = <<>>
    /\ records = <<>>
    /\ standings = <<>>
    /\ playoff_teams = {}
    /\ expected_wins = <<>>
    /\ week = <<>>
    /\ acc = EmptyAcc
    /\ raised = "none"

\* a single run: there is no second run to compare it with
Fresh == FreshRun /\ other = <<>>

(* ------------------- run_monte_carlo_analysis -------------------------- *)
Init ==
    /\ \E lg \in Leagues : weekly_scores = lg[1] /\ num_playoff_teams = lg[2]
    /\ teams \in TeamOrders
    /\ pc = "loop"
    /\ Fresh

\* one iteration of the simulation loop; rnd are the draws it takes from rng
Trial ==
    /\ pc = "loop"
    /\ sim < MaxTrials
    /\ ~generate_round_robin_week_raises(teams)
    /\ \E rnd \in [1..NumWeeks(weekly_scores) -> Draws(Len(teams))] :
       \E schedule \in {generate_random_schedule(teams, NumWeeks(weekly_scores), rnd)} :
       \E r \in {Records(weekly_scores, schedule)} :
       \E st \in {RankRecords(r, teams)} :
            /\ records' = r
            /\ standings' = st
            /\ playoff_teams' = get_playoff_teams(st, num_playoff_teams)
            /\ acc' = Accumulate(acc, st, num_playoff_teams)
    /\ sim' = sim + 1
    /\ UNCHANGED <<weekly_scores, teams, num_playoff_teams, pc, actual_schedule,
                   expected_wins, week, other, raised>>

\* the loop ends and the accumulators are returned
Return ==
    /\ pc = "loop"
    /\ sim = MaxTrials
    /\ pc' = "done"
    /\ UNCHANGED <<weekly_scores, teams, num_playoff_teams, sim, actual_schedule,
                   records, standings, playoff_teams, expected_wins, week, acc, other,
                   raised>>

Next == Trial \/ Return

Spec == Init /\ [][Next]_vars

(* ------------- run_monte_carlo_analysis on any team count -------------- *)
\* single-week leagues of one, two or three teams
InitAbort ==
    /\ \E S \in (SUBSET Teams) \ {{}, Teams} :
          /\ \E v \in [S -> 0..MaxScore] : weekly_scores = [t \in S |-> <<v[t]>>]
          /\ teams \in Orders(S)
    /\ num_playoff_teams \in 0..MaxPlayoffSlots
    /\ pc = "loop"
    /\ Fresh

\* an iteration that tolerates the exception and goes on with the next trial
TrialRaises_Skip ==
    /\ pc = "loop"
    /\ sim < MaxTrials
    /\ generate_round_robin_week_raises(teams)
    /\ sim' = sim + 1
    /\ UNCHANGED <<weekly_scores, teams, num_playoff_teams, pc, actual_schedule,
                   records, standings, playoff_teams, expected_wins, week, acc, other,
                   raised>>

\* an iteration whose first generate_round_robin_week call raises: the loop has
\* no handler, so the exception leaves run_monte_carlo_analysis and the local
\* accumulators are never returned
TrialRaises ==
    /\ pc = "loop"
    /\ sim < MaxTrials
    /\ generate_round_robin_week_raises(teams)
    /\ raised' = "IndexError"
    /\ pc' = "raised"
    /\ UNCHANGED <<weekly_scores, teams, num_playoff_teams, sim, actual_schedule,
                   records, standings, playoff_teams, expected_wins, week, acc, other>>

NextAbort == Trial \/ TrialRaises \/ Return

SpecAbort == InitAbort /\ [][NextAbort]_vars

(* --------------------- analyze_actual_results -------------------------- *)
\* a matchup is a pair of distinct teams
Matchups == {m \in Teams \X Teams : m[1] # m[2]}

\* the matchup lists of one week of a recorded schedule: no team twice; a
\* week may be complete, partial or empty
WeekLists ==
    {<<>>} \cup {<<m>> : m \in Matchups}
           \cup {<<m[1], m[2]>> : m \in {p \in Matchups \X Matchups :
                                            {p[1][1], p[1][2]} \cap {p[2][1], p[2][2]} = {}}}

\* the schedules of at most n weeks
Schedules(n) == UNION {[1..k -> WeekLists] : k \in 0..n}

InitActual ==
    /\ \E lg \in Leagues : weekly_scores = lg[1] /\ num_playoff_teams = lg[2]
    /\ teams \in TeamOrders
    /\ pc = "actual"
    /\ Fresh

\* the standings, the playoff set and the expected wins of a recorded schedule
analyze_actual_results ==
    /\ pc = "actual"
    /\ \E schedule \in Schedules(NumWeeks(weekly_scores)) :
       \E r \in {Records(weekly_scores, schedule)} :
       \E st \in {RankRecords(r, teams)} :
            /\ actual_schedule' = schedule
            /\ records' = r
            /\ standings' = st
            /\ playoff_teams' = get_playoff_teams(st, num_playoff_teams)
    /\ expected_wins' = calculate_expected_wins(weekly_scores)
    /\ pc' = "analyzed"
    /\ UNCHANGED <<weekly_scores, teams, num_playoff_teams, sim, week, acc, other,
                   raised>>

NextActual == analyze_actual_results

SpecActual == InitActual /\ [][NextActual]_vars

(* ---------- calculate_standings on schedules over all teams ------------ *)
\* single-week score matrices that lack one or two of the teams
InitStandings ==
    /\ \E S \in {T \in SUBSET Teams : Cardinality(T) \in {2, 3}} :
          /\ \E v \in [S -> 0..MaxScore] : weekly_scores = [t \in S |-> <<v[t]>>]
          /\ teams \in Orders(S)
    /\ num_playoff_teams = 0
    /\ pc = "standings"
    /\ Fresh

\* one call of calculate_standings on a schedule that may name any team
ScoreSchedule ==
    /\ pc = "standings"
    /\ \E schedule \in Schedules(NumWeeks(weekly_scores)) :
          /\ actual_schedule' = schedule
          /\ IF calculate_standings_raises(weekly_scores, schedule)
             THEN /\ raised' = "KeyError"
                  /\ pc' = "raised"
                  /\ UNCHANGED <<records, standings>>
             ELSE /\ \E r \in {Records(weekly_scores, schedule)} :
                        /\ records' = r
                        /\ standings' = RankRecords(r, teams)
                  /\ pc' = "ranked"
                  /\ UNCHANGED raised
    /\ UNCHANGED <<weekly_scores, teams, num_playoff_teams, sim, playoff_teams,
                   expected_wins, week, acc, other>>

NextStandings == ScoreSchedule

SpecStandings == InitStandings /\ [][NextStandings]_vars

(* ------------------------ schedule sampler ----------------------------- *)
\* the team lists with distinct teams, of even and of odd size
TeamLists == UNION {Orders(S) : S \in SUBSET Teams}

InitSampler ==
    /\ weekly_scores = <<>>
    /\ num_playoff_teams = 0
    /\ teams \in TeamLists
    /\ pc = "sample"
    /\ Fresh

\* one call of generate_round_robin_week; d are the draws of its shuffle
SampleWeek ==
    /\ pc = "sample"
    /\ IF generate_round_robin_week_raises(teams)
       THEN /\ raised' = "IndexError"
            /\ pc' = "raised"
            /\ UNCHANGED week
       ELSE /\ \E d \in Draws(Len(teams)) : week' = generate_round_robin_week(teams, d)
            /\ pc' = "sampled"
            /\ UNCHANGED raised
    /\ UNCHANGED <<weekly_scores, teams, num_playoff_teams, sim, actual_schedule,
                   records, standings, playoff_teams, expected_wins, acc, other>>

NextSampler == SampleWeek

SpecSampler == InitSampler /\ [][NextSampler]_vars

(* ------------- two runs on the same data with the same seed ------------ *)
\* each run lists the keys of the dict built from the team set in the order
\* its process iterates that set; both generators are seeded with 42
InitDet ==
    /\ weekly_scores = ScenarioScores
    /\ num_playoff_teams = 2
    /\ teams \in TeamOrders
    /\ pc = "loop"
    /\ FreshRun
    /\ \E o \in TeamOrders : other = [teams |-> o, acc |-> EmptyAcc]

\* trial sim + 1 of both runs: the generators give both the same draws
TrialBoth ==
    /\ pc = "loop"
    /\ sim < DetTrials
    /\ \E rnd \in [1..NumWeeks(weekly_scores) -> Draws(Len(teams))] :
        /\ \E schedule \in {generate_random_schedule(teams, NumWeeks(weekly_scores), rnd)} :
           \E r \in {Records(weekly_scores, schedule)} :
           \E st \in {RankRecords(r, teams)} :
                /\ records' = r
                /\ standings' = st
                /\ playoff_teams' = get_playoff_teams(st, num_playoff_teams)
                /\ acc' = Accumulate(acc, st, num_playoff_teams)
        /\ \E schedule \in {generate_random_schedule(other.teams, NumWeeks(weekly_scores),
                                                     rnd)} :
           \E st \in {calculate_standings(weekly_scores, other.teams, schedule)} :
                other' = [other EXCEPT !.acc = Accumulate(@, st, num_playoff_teams)]
    /\ sim' = sim + 1
    /\ UNCHANGED <<weekly_scores, teams, num_playoff_teams, pc, actual_schedule,
                   expected_wins, week, raised>>

\* both loops end and both runs return their accumulators
ReturnBoth ==
    /\ pc = "loop"
    /\ sim = DetTrials
    /\ pc' = "done"
    /\ UNCHANGED <<weekly_scores, teams, num_playoff_teams, sim, actual_schedule,
                   records, standings, playoff_teams, expected_wins, week, acc, other,
                   raised>>

NextDet == TrialBoth \/ ReturnBoth

SpecDet == InitDet /\ [][NextDet]_vars

(* --------------- a run that keeps the rankings of its trials ----------- *)
\* two of the orders in which the team set can be iterated
ShardOrders == {<<"A", "B", "C", "D">>, <<"D", "B", "A", "C">>}

InitShard ==
    /\ \E lg \in Leagues : weekly_scores = lg[1] /\ num_playoff_teams = lg[2]
    /\ teams \in ShardOrders
    /\ pc = "loop"
    /\ FreshRun
    /\ other = [trials |-> <<>>]

\* one iteration of the simulation loop; its standings are also kept
TrialShard ==
    /\ pc = "loop"
    /\ sim < ShardTrials
    /\ \E rnd \in [1..NumWeeks(weekly_scores) -> Draws(Len(teams))] :
       \E schedule \in {generate_random_schedule(teams, NumWeeks(weekly_scores), rnd)} :
       \E r \in {Records(weekly_scores, schedule)} :
       \E st \in {RankRecords(r, teams)} :
            /\ records' = r
            /\ standings' = st
            /\ playoff_teams' = get_playoff_teams(st, num_playoff_teams)
            /\ acc' = Accumulate(acc, st, num_playoff_teams)
            /\ other' = [trials |-> Append(other.trials, st)]
    /\ sim' = sim + 1
    /\ UNCHANGED <<weekly_scores, teams, num_playoff_teams, pc, actual_schedule,
                   expected_wins, week, raised>>

ReturnShard ==
    /\ pc = "loop"
    /\ sim = ShardTrials
    /\ pc' = "done"
    /\ UNCHANGED <<weekly_scores, teams, num_playoff_teams, sim, actual_schedule,
                   records, standings, playoff_teams, expected_wins, week, acc, other,
                   raised>>

NextShard == TrialShard \/ ReturnShard

SpecShard == InitShard /\ [][NextShard]_vars

(* ------------- the core functions called in any sequence --------------- *)
InitFrame ==
    /\ weekly_scores \in WeekMatrices
    /\ num_playoff_teams = 2
    /\ teams \in ShardOrders
    /\ pc = "calls"
    /\ Fresh

\* one more call is made; sim counts the calls
OneMoreCall ==
    /\ pc = "calls"
    /\ sim < MaxCalls
    /\ sim' = sim + 1
    /\ UNCHANGED <<num_playoff_teams, pc, acc, other, raised>>

CallWeek ==
    /\ OneMoreCall
    /\ \E d \in Draws(Len(teams)) :
          /\ week' = generate_round_robin_week(teams, d)
          /\ teams' = ListAfterWeek(teams, d)
    /\ UNCHANGED <<weekly_scores, actual_schedule, records, standings, playoff_teams,
                   expected_wins>>

CallSchedule ==
    /\ OneMoreCall
    /\ \E rnd \in [1..NumWeeks(weekly_scores) -> Draws(Len(teams))] :
          /\ actual_schedule' =
                generate_random_schedule(teams, NumWeeks(weekly_scores), rnd)
          /\ teams' = ListAfterSchedule(teams, rnd, 1)
    /\ UNCHANGED <<weekly_scores, records, standings, playoff_teams, expected_wins,
                   week>>

\* calculate_standings on the schedule built last (the empty one at first)
CallStandings ==
    /\ OneMoreCall
    /\ \E r \in {Records(weekly_scores, actual_schedule)} :
          /\ records' = r
          /\ standings' = RankRecords(r, teams)
    /\ weekly_scores' = ScoresAfterStandings(weekly_scores, actual_schedule)
    /\ UNCHANGED <<teams, actual_schedule, playoff_teams, expected_wins, week>>

\* get_playoff_teams on the ranking computed last (the empty one at first)
CallPlayoffs ==
    /\ OneMoreCall
    /\ playoff_teams' = get_playoff_teams(standings, num_playoff_teams)
    /\ UNCHANGED <<weekly_scores, teams, actual_schedule, records, standings,
                   expected_wins, week>>

CallExpectedWins ==
    /\ OneMoreCall
    /\ expected_wins' = calculate_expected_wins(weekly_scores)
    /\ weekly_scores' = ScoresAfterExpectedWins(weekly_scores)
    /\ UNCHANGED <<teams, actual_schedule, records, standings, playoff_teams, week>>

NextFrame == CallWeek \/ CallSchedule \/ CallStandings \/ CallPlayoffs \/ CallExpectedWins

SpecFrame == InitFrame /\ [][NextFrame]_vars

(* ============================ properties =============================== *)
NumTeams == Cardinality(Teams)

\* the placement histogram of a team; a team never placed has none
Histogram(t) == IF t \in DOMAIN placement_counts THEN placement_counts[t] ELSE <<>>

\* the teams paired in a week
Paired(w, k) == {w[k][1], w[k][2]}

\* the position of a team in the team list
PosIn(teamList, t) == CHOOSE i \in DOMAIN teamList : teamList[i] = t

\* team t scores strictly more than every other team in every week
Dominant(t) ==
    \A w \in 1..NumWeeks(weekly_scores) : \A u \in Teams \ {t} :
        weekly_scores[t][w] > weekly_scores[u][w]

\* C1: after every trial of the simulation, whose schedule pairs all teams in
\* every week, each team's wins + losses + ties equal the number of weeks.
C1_RecordCoversEveryWeek ==
    sim >= 1 =>
        \A t \in Teams :
            records[t].wins + records[t].losses + records[t].ties
                = NumWeeks(weekly_scores)

\* a trial in which one matchup was tied and another was won
C1_Witness ==
    /\ sim >= 1
    /\ \E t, u \in Teams : records[t].ties > 0 /\ records[u].wins > 0

\* C2: after k completed trials every team's placement histogram sums to k,
\* and its ranks lie in 1..numTeams.
C2_HistogramSumsToTrials ==
    \A t \in Teams :
        /\ SumSet(Histogram(t), DOMAIN Histogram(t)) = sim
        /\ DOMAIN Histogram(t) \subseteq 1..NumTeams

\* a finished run in which a team was placed at two different ranks
C2_Witness ==
    /\ pc = "done"
    /\ sim = MaxTrials
    /\ \E t \in Teams : Cardinality(DOMAIN Histogram(t)) >= 2

\* C3: for a team list of even size with distinct teams the sampled week is a
\* perfect matching: len(teams)/2 matchups of two distinct teams, every team
\* of the list in exactly one of them.
C3_WeekIsPerfectMatching ==
    pc = "sampled" =>
        /\ 2 * Len(week) = Len(teams)
        /\ \A k \in DOMAIN week : week[k][1] # week[k][2]
        /\ \A i \in DOMAIN teams :
              Cardinality({k \in DOMAIN week : teams[i] \in Paired(week, k)}) = 1
        /\ \A k \in DOMAIN week : Paired(week, k) \subseteq {teams[i] : i \in DOMAIN teams}

\* a week of four teams in which the shuffle moved the first team of the list
C3_Witness ==
    /\ pc = "sampled"
    /\ Len(teams) = 4
    /\ teams[1] \notin Paired(week, 1)

\* C4: the standings list holds every team exactly once and is ordered by wins
\* descending, then by points descending.
C4_StandingsSorted ==
    pc = "analyzed" =>
        /\ Len(standings) = NumTeams
        /\ {standings[i][1] : i \in DOMAIN standings} = Teams
        /\ \A i \in 1..(Len(standings) - 1) :
              \/ standings[i][2] > standings[i + 1][2]
              \/ /\ standings[i][2] = standings[i + 1][2]
                 /\ standings[i][4] >= standings[i + 1][4]

\* standings in which the points decide between two teams with equal wins, and
\* a team with fewer points stands above a team with more points by its wins
C4_Witness ==
    /\ pc = "analyzed"
    /\ \E i \in 1..(Len(standings) - 1) :
          standings[i][2] = standings[i + 1][2] /\ standings[i][4] > standings[i + 1][4]
    /\ \E i \in 1..(Len(standings) - 1) :
          standings[i][2] > standings[i + 1][2] /\ standings[i][4] < standings[i + 1][4]

C6_RunsAgree == pc = "done" => other.acc = acc

\* C7, as stated: a team that outscores every other team in every week wins
\* every matchup of every trial and is ranked first, and at the end of the run
\* its playoff count and its championship count equal the number of trials.
C7_DominantAlwaysInPlayoffs ==
    \A t \in Teams :
        Dominant(t) =>
            /\ sim >= 1 => /\ records[t].wins = NumWeeks(weekly_scores)
                           /\ standings[1][1] = t
            /\ pc = "done" => /\ Get(championship_counts, t) = MaxTrials
                              /\ Get(playoff_counts, t) = MaxTrials

\* C7, amended: the playoff count equals the number of trials when there is at
\* least one playoff slot; the rest as stated.
C7_DominantWinsEverything ==
    \A t \in Teams :
        Dominant(t) =>
            /\ sim >= 1 => /\ records[t].wins = NumWeeks(weekly_scores)
                           /\ standings[1][1] = t
            /\ pc = "done" => /\ Get(championship_counts, t) = MaxTrials
                              /\ num_playoff_teams >= 1
                                    => Get(playoff_counts, t) = MaxTrials

\* a finished run with a dominant team and at least one playoff slot
C7_Witness ==
    /\ pc = "done"
    /\ num_playoff_teams >= 1
    /\ \E t \in Teams : Dominant(t) /\ Get(playoff_counts, t) = MaxTrials

\* C8: the playoff set has min(playoffSlots, teamCount) teams, all of them in
\* the ranking, and no team outside it is ranked above a team inside it.
C8_PlayoffsAreTopRanks ==
    pc = "analyzed" =>
        /\ Cardinality(playoff_teams) = Min(num_playoff_teams, Len(standings))
        /\ playoff_teams \subseteq {standings[i][1] : i \in DOMAIN standings}
        /\ \A i, j \in DOMAIN standings :
              (standings[i][1] \in playoff_teams /\ standings[j][1] \notin playoff_teams)
                  => i < j

\* a selection of some but not all teams
C8_Witness ==
    /\ pc = "analyzed"
    /\ num_playoff_teams = 2
    /\ Cardinality(playoff_teams) = 2
    /\ Len(standings) = 4

\* C9: the scenario gives wins A=1, B=1, C=2, D=0, points A=160, B=185, C=165,
\* D=120, the ranking [C, B, A, D], the playoff set {C, B} for 2 slots, and
\* expected wins A=4/3, B=5/3, C=1, D=0 (8, 10, 6, 0 in sixths).
C9_Scenario ==
    (pc = "analyzed" /\ weekly_scores = ScenarioScores
                     /\ actual_schedule = ScenarioSchedule) =>
        /\ standings = << <<"C", 2, 0, 165>>, <<"B", 1, 1, 185>>,
                          <<"A", 1, 1, 160>>, <<"D", 0, 2, 120>> >>
        /\ playoff_teams = {"C", "B"}
        /\ expected_wins = [t \in Teams |-> CASE t = "A" -> 8 [] t = "B" -> 10
                                              [] t = "C" -> 6 [] t = "D" -> 0]
        /\ SumSet(expected_wins, Teams) = 4 * 6

\* the scenario has been analysed
C9_Witness ==
    /\ pc = "analyzed"
    /\ weekly_scores = ScenarioScores
    /\ actual_schedule = ScenarioSchedule
    /\ num_playoff_teams = 2

\* C10: whatever schedule is scored (complete, partial or empty), the points
\* of every team are the sum of its full score sequence.
C10_PointsIgnoreSchedule ==
    pc = "analyzed" =>
        /\ \A t \in Teams : records[t].points = SumSeq(weekly_scores[t])
        /\ \A i \in DOMAIN standings :
              standings[i][4] = SumSeq(weekly_scores[standings[i][1]])

\* a schedule that leaves out a team with points in a week and pairs others
C10_Witness ==
    /\ pc = "analyzed"
    /\ \E w \in DOMAIN actual_schedule :
          /\ Len(actual_schedule[w]) = 1
          /\ \E t \in Teams : /\ t \notin Paired(actual_schedule[w], 1)
                              /\ weekly_scores[t][w] > 0
                              /\ records[t].points > 0

\* C11: generate_round_robin_week on a team list of odd size fails with a
\* ConfigurationError and returns no week.
C11_OddListIsConfigurationError ==
    (pc # "sample" /\ Len(teams) % 2 = 1) =>
        /\ pc = "raised"
        /\ raised = "ConfigurationError"
        /\ week = <<>>

\* C12: when a trial raises, the run ends there with that error: the trial is
\* not counted as done, the loop is left, and after the error nothing more
\* happens, so no later trial runs and no accumulator is returned.
C12_ErrorAbortsRun ==
    [][/\ (pc = "loop" /\ generate_round_robin_week_raises(teams))
            => (pc' = "raised" /\ raised' = "IndexError" /\ sim' = sim /\ acc' = acc)
       /\ raised # "none" => FALSE]_vars

\* a run on three teams that its first trial ended
C12_Witness ==
    /\ pc = "raised"
    /\ raised = "IndexError"
    /\ Len(teams) = 3
    /\ sim = 0

\* C13, as stated: with more playoff slots than teams the selection of the
\* playoff teams and the Monte Carlo run fail: no trial completes, no playoff
\* set is returned and the run does not return.
C13_SlotsOverflowFails ==
    num_playoff_teams > NumTeams =>
        /\ sim = 0
        /\ playoff_teams = {}
        /\ pc # "done"

\* C13, amended: with more playoff slots than teams nothing is raised, every
\* selection returns all teams of the ranking, and every team's playoff count
\* is the number of completed trials.
C13_SlotsOverflowTakesAll ==
    num_playoff_teams > NumTeams =>
        /\ raised = "none"
        /\ sim >= 1 => playoff_teams = Teams
        /\ \A t \in Teams : Get(playoff_counts, t) = sim

\* a finished run with more playoff slots than teams
C13_Witness ==
    /\ pc = "done"
    /\ sim = MaxTrials
    /\ num_playoff_teams > NumTeams
    /\ playoff_teams = Teams

\* C14: calculate_standings on a schedule that names a team missing from the
\* score matrix, in any week and on either side of a matchup, fails with a
\* ConfigurationError and returns no ranking.
C14_UnknownTeamIsConfigurationError ==
    (/\ pc # "standings"
     /\ \E w \in DOMAIN actual_schedule : \E k \in DOMAIN actual_schedule[w] :
            ~(Paired(actual_schedule[w], k) \subseteq DOMAIN weekly_scores)) =>
        /\ pc = "raised"
        /\ raised = "ConfigurationError"
        /\ standings = <<>>

\* C15: for every schedule, two teams with equal wins and equal points stand
\* in the ranking in the order in which the score matrix lists them.
C15_TiesKeepInputOrder ==
    pc = "analyzed" =>
        \A i, j \in DOMAIN standings :
            (/\ i < j
             /\ standings[i][2] = standings[j][2]
             /\ standings[i][4] = standings[j][4])
                => PosIn(teams, standings[i][1]) < PosIn(teams, standings[j][1])

\* a ranking with two teams equal on wins and points, below a team that the
\* score matrix lists after both of them
C15_Witness ==
    /\ pc = "analyzed"
    /\ \E i, j, k \in DOMAIN standings :
          /\ k < i /\ i < j
          /\ standings[i][2] = standings[j][2]
          /\ standings[i][4] = standings[j][4]
          /\ PosIn(teams, standings[k][1]) > PosIn(teams, standings[j][1])

\* the per-bucket sum of two defaultdict(int)
MergeCounts(a, b) == [k \in DOMAIN a \cup DOMAIN b |-> Get(a, k) + Get(b, k)]

\* the per-bucket sum of the accumulators of two shards
MergeAcc(a, b) ==
    [playoff_counts |-> MergeCounts(a.playoff_counts, b.playoff_counts),
     placement_counts |->
        [t \in DOMAIN a.placement_counts \cup DOMAIN b.placement_counts |->
            MergeCounts(IF t \in DOMAIN a.placement_counts
                            THEN a.placement_counts[t] ELSE <<>>,
                        IF t \in DOMAIN b.placement_counts
                            THEN b.placement_counts[t] ELSE <<>>)],
     total_wins |-> MergeCounts(a.total_wins, b.total_wins),
     championship_counts |-> MergeCounts(a.championship_counts, b.championship_counts)]

RECURSIVE PickFrom(_, _, _)

\* the trials whose index from i on is in the set L, in their order
PickFrom(trials, L, i) ==
    IF i > Len(trials) THEN <<>>
    ELSE (IF i \in L THEN <<trials[i]>> ELSE <<>>) \o PickFrom(trials, L, i + 1)

\* the accumulators of a shard that runs the trials of L
ShardAcc(L) == AccumulateAll(EmptyAcc, PickFrom(other.trials, L, 1), num_playoff_teams)

\* C16: the accumulators of a run are those of its trials applied in any
\* other order, and the per-bucket sum of the accumulators of any two shards
\* that split the trials between them.
C16_MergeIsOrderFree ==
    /\ \A p \in Orders(DOMAIN other.trials) :
          AccumulateAll(EmptyAcc, [i \in DOMAIN other.trials |-> other.trials[p[i]]],
                        num_playoff_teams) = acc
    /\ \A L \in SUBSET DOMAIN other.trials :
          MergeAcc(ShardAcc(L), ShardAcc(DOMAIN other.trials \ L)) = acc

\* a finished run of three trials with three different rankings and with
\* different wins of one team
C16_Witness ==
    /\ pc = "done"
    /\ Len(other.trials) = ShardTrials
    /\ \A i, j \in DOMAIN other.trials : i # j => other.trials[i] # other.trials[j]
    /\ \E i, j \in DOMAIN other.trials : \E m, n \in 1..NumTeams :
          /\ other.trials[i][m][1] = other.trials[j][n][1]
          /\ other.trials[i][m][2] # other.trials[j][n][2]

\* C17: no call of generate_round_robin_week, generate_random_schedule,
\* calculate_standings, get_playoff_teams or calculate_expected_wins changes
\* the score matrix or the order of the team list.
C17_InputsAreNeverModified ==
    [][weekly_scores' = weekly_scores /\ teams' = teams]_vars

\* a schedule was sampled and then scored, with a win for the leader
C17_Witness ==
    /\ sim = MaxCalls
    /\ actual_schedule # <<>>
    /\ standings # <<>>
    /\ standings[1][2] > 0

\* C18: after every number of completed trials, a team's championship count
\* is the first bucket of its placement histogram and its playoff count is the
\* sum of the buckets of the ranks up to min(playoffSlots, numTeams); over all
\* teams the championship counts sum to the number of trials and the playoff
\* counts to the number of trials times min(playoffSlots, numTeams).
C18_CountersMatchHistogram ==
    LET top == Min(num_playoff_teams, NumTeams)
    IN  /\ \A t \in Teams :
              /\ Get(championship_counts, t) = Get(Histogram(t), 1)
              /\ Get(playoff_counts, t)
                    = SumSet([r \in 1..top |-> Get(Histogram(t), r)], 1..top)
        /\ SumSet([t \in Teams |-> Get(championship_counts, t)], Teams) = sim
        /\ SumSet([t \in Teams |-> Get(playoff_counts, t)], Teams) = sim * top

\* a finished run with fewer playoff slots than teams, a team that reached the
\* playoffs in some trials only, and a team that won a trial but not all
C18_Witness ==
    /\ pc = "done"
    /\ num_playoff_teams \in 2..(NumTeams - 1)
    /\ \E t \in Teams : Get(playoff_counts, t) \in 1..(MaxTrials - 1)
    /\ \E t \in Teams : Get(championship_counts, t) \in 1..(MaxTrials - 1)

=============================================================================
